---- MODULE Spec2Model ----
(***************************************************************************)
(* FileOnlyProfilingConnection: the local handler dispatch pipeline.       *)
(*                                                                         *)
(* Three threads act on one connection object:                             *)
(*   - the control thread, which calls AddLocalPacketHandler,              *)
(*     StartProcessingThread and Close one after the other;                *)
(*   - the producer thread (the profiling service's send thread), which    *)
(*     calls ForwardPacketToHandlers;                                      *)
(*   - the worker thread(s) running ServiceLocalHandlers.                  *)
(* A step is a stretch of one thread's code containing one access to       *)
(* shared state that other threads can observe between: an atomic store,   *)
(* a mutex acquisition with the reads made under it, a wait or a notify.   *)
(***************************************************************************)
EXTENDS Integers, Sequences, FiniteSets, TLC

\* ------------------------------------------------------------------ bounds
\* Number of ForwardPacketToHandlers calls made by the producer.
MaxPackets == 2
\* Number of worker threads ever spawned by StartProcessingThread.
MaxStarts == 2
\* Number of AddLocalPacketHandler calls.
MaxHandlers == 1
\* The preambles the client writes on one connection.
MaxPreambles == 1
\* The SendPacket calls on one connection.
MaxSends == 2
\* The longest payload given to SendPacket.
MaxPayload == 1
\* The files one backend scan finds.
MaxModules == 3
\* The ReadPacket calls on one connection.
MaxReads == 3

\* -------------------------------------------------------- program constants
\* Header of a counter directory packet (family 0, id 2).
CounterDirectoryHeader == 131072
\* Header of a stream metadata packet (family 0, id 0).
StreamMetaDataHeader == 0

\* Header of the connection acknowledgement packet (family 0, id 1).
ConnectionAckHeader == 65536
\* Header of the counter selection packet (family 0, id 4).
CounterSelectionHeader == 262144
\* armnnProfiling::PIPE_MAGIC, 0x45495434.
PIPE_MAGIC == 1162433588

\* The buffers passed to WritePacket: the four bytes at buffer (the first
\* header word), the four bytes at buffer + 8 (the pipe_magic word of stream
\* metadata, payload otherwise) and, for a counter directory, the counters
\* its decoding yields. In order: stream metadata with the magic big-endian,
\* little-endian and wrong, a counter directory of one counter and one of
\* two, a packet of another header.
WriteBuffers ==
    { [word0 |-> << 0, 0, 0, 0 >>, magic |-> << 69, 73, 84, 52 >>,
       counters |-> << >>],
      [word0 |-> << 0, 0, 0, 0 >>, magic |-> << 52, 84, 73, 69 >>,
       counters |-> << >>],
      [word0 |-> << 0, 0, 0, 0 >>, magic |-> << 69, 73, 84, 69 >>,
       counters |-> << >>],
      [word0 |-> << 0, 0, 2, 0 >>, magic |-> << 0, 0, 0, 0 >>,
       counters |-> << 1 >>],
      [word0 |-> << 0, 0, 2, 0 >>, magic |-> << 0, 0, 0, 0 >>,
       counters |-> << 2, 3 >>],
      [word0 |-> << 0, 0, 1, 0 >>, magic |-> << 52, 84, 73, 69 >>,
       counters |-> << >>] }

NoBuffer == [word0 |-> << >>, magic |-> << >>, counters |-> << >>]

\* The files a scan can find: two valid modules that declare the same backend
\* identifier, a valid module with another identifier, a file that is not a
\* loadable object, and a library without a required entry point.
Modules ==
    { [file |-> "a1", kind |-> "valid", id |-> "A"],
      [file |-> "a2", kind |-> "valid", id |-> "A"],
      [file |-> "b1", kind |-> "valid", id |-> "B"],
      [file |-> "txt", kind |-> "notLibrary", id |-> "none"],
      [file |-> "bad", kind |-> "missingEntryPoint", id |-> "A"] }

NoModule == [file |-> "none", kind |-> "none", id |-> "none"]

\* Values of m_Timeout: negative selects the unbounded wait, the others the
\* bounded wait_for.
TimeoutValues == {-1, 0}

\* The handler objects that can be registered, each with the list returned
\* by its GetHeadersAccepted(): a universal handler, a handler of one header,
\* a handler of two headers, and a handler whose list repeats a header.
HandlerObjects == 1 .. 4

GetHeadersAccepted(h) ==
    CASE h = 1 -> << >>
      [] h = 2 -> << CounterDirectoryHeader >>
      [] h = 3 -> << StreamMetaDataHeader, CounterDirectoryHeader >>
      [] OTHER -> << CounterDirectoryHeader, CounterDirectoryHeader >>

Workers == 1 .. MaxStarts

VARIABLES
    m_PacketHandlers,       \* vector of all registered handlers
    m_UniversalHandlers,    \* vector of the handlers with no accepted header
    m_IndexedHandlers,      \* map header -> vector of handlers
    m_IsRunning,            \* atomic<bool>
    m_KeepRunning,          \* atomic<bool>
    m_Timeout,              \* int, fixed at construction
    m_ReadableList,         \* queue<Packet>, the inbound queue
    m_ReadableMutex,        \* "free", "producer" or "worker"
    m_LocalHandlersThread,  \* 0 (not joinable) or the worker it refers to
    cpc,                    \* control thread: position inside Close
    ppc,                    \* producer thread: position inside Forward...
    ppkt,                   \* producer thread: the packet being forwarded
    wpc,                    \* per worker: position inside ServiceLocalHandlers
    returnedPacket,         \* per worker: local of ServiceLocalHandlers
    readPacket,             \* per worker: local of ServiceLocalHandlers
    delegateIdx,            \* per worker: loop position in DispatchPacket...
    nextId,                 \* number of packets the producer has created
    accepted,               \* history: ids pushed on m_ReadableList
    dispatched,             \* history: packets handed to DispatchPacketToHandlers
    handled,                \* history: the HandlePacket calls <<handler, id>>
    stopSet,                \* history: ids queued when Close cleared the flag
    m_PacketQueue,          \* queue<Packet>, the outbound queue
    m_Endianness,           \* TargetEndianness of the connection
    m_IdList,               \* vector<uint16_t>, the counters selected so far
    wbuf,                   \* producer thread: the buffer of the last WritePacket
    threw,                  \* number of WritePacket calls that threw
    m_ClientConnection,     \* BasePipeServer: the client socket
    m_ServerEndianness,     \* BasePipeServer::m_Endianness
    m_StreamMetaData,       \* BasePipeServer: version, max data length, pid
    ret,                    \* BasePipeServer: the last call and its result
    sent,                   \* history: the packets SendPacket reported sent
    received,               \* history: the packets ReceivePacket returned
    sharedObjects,          \* backend loader: the files still to open
    candidate,              \* backend loader: the module opened, not validated
    dynamicBackends,        \* backend loader: validated, not yet registered
    openHandles,            \* backend loader: the files whose handle is open
    backendRegistry,        \* the registered backends, in registration order
    diagnostics,            \* backend loader: the diagnostics recorded
    scanned,                \* history: the files of the scan, in scan order
    m_PacketAvailableMutex, \* "free" or "reader"
    rpc,                    \* reader thread: position inside ReadPacket
    readResult,             \* reader thread: what the last ReadPacket did
    readCalls               \* number of ReadPacket calls that have ended

registry == << m_PacketHandlers, m_UniversalHandlers, m_IndexedHandlers >>
flags    == << m_IsRunning, m_KeepRunning >>
wlocals  == << returnedPacket, readPacket, delegateIdx >>
history  == << accepted, dispatched, handled, stopSet >>
outbound == << m_PacketQueue, m_Endianness, m_IdList, wbuf >>

server   == << m_ClientConnection, m_ServerEndianness, m_StreamMetaData,
               ret, sent, received >>

loader   == << sharedObjects, candidate, dynamicBackends, openHandles,
               backendRegistry, diagnostics, scanned >>

reader   == << m_PacketAvailableMutex, rpc, readResult, readCalls >>

\* What no step of the dispatch pipeline writes.
elsewhere == << m_Timeout, server, loader, reader >>

vars == << m_PacketHandlers, m_UniversalHandlers, m_IndexedHandlers,
           m_IsRunning, m_KeepRunning, m_Timeout, m_ReadableList,
           m_ReadableMutex, m_LocalHandlersThread, cpc, ppc, ppkt, wpc,
           returnedPacket, readPacket, delegateIdx, nextId, accepted,
           dispatched, handled, stopSet, m_PacketQueue, m_Endianness,
           m_IdList, wbuf, threw, m_ClientConnection, m_ServerEndianness,
           m_StreamMetaData, ret, sent, received, sharedObjects, candidate,
           dynamicBackends, openHandles, backendRegistry, diagnostics,
           scanned, m_PacketAvailableMutex, rpc, readResult, readCalls >>

\* The state of the FileOnlyProfilingConnection.
connection == << registry, flags, m_Timeout, m_ReadableList, m_ReadableMutex,
                 m_LocalHandlersThread, cpc, ppc, ppkt, wpc, wlocals, nextId,
                 history, outbound, threw, reader >>

NoPacket == [id |-> 0, header |-> 0]

\* ReadPacket has not been called.
NoResult == [kind |-> "none"]

\* ----------------------------------------------------------------- helpers
Range(s) == { s[i] : i \in 1 .. Len(s) }

\* A worker thread exists and has not yet returned from ServiceLocalHandlers.
Alive(w) == wpc[w] \notin {"none", "exited", "joined"}

LiveWorkers == { w \in Workers : Alive(w) }

EverStarted == \E w \in Workers : wpc[w] # "none"

\* Front as a stack would give it: the packet pushed last.
FrontOfStack(q) == q[Len(q)]

\* std::queue front() and pop().
Front(q) == Head(q)

Pop(q) == Tail(q)

\* ClearReadableList: pops size() elements.
ClearReadableList(q) == << >>

\* m_IndexedHandlers.find(header): the vector found, empty when there is none.
FindIndexed(header) ==
    IF header \in DOMAIN m_IndexedHandlers THEN m_IndexedHandlers[header]
    ELSE << >>

\* The calls DispatchPacketToHandlers makes for a packet, in order.
Delegates(packet) == m_UniversalHandlers \o FindIndexed(packet.header)

\* condition_variable::notify_one on m_ConditionPacketReadable: one thread
\* blocked in the wait, if there is one, is woken.
NotifyOne(pcs) ==
    IF \E w \in Workers : pcs[w] = "blocked"
    THEN LET w == CHOOSE x \in Workers : pcs[x] = "blocked"
         IN  [pcs EXCEPT ![w] = "woken"]
    ELSE pcs

Init ==
    /\ m_PacketHandlers = << >>
    /\ m_UniversalHandlers = << >>
    /\ m_IndexedHandlers = << >>
    /\ m_IsRunning = FALSE
    /\ m_KeepRunning = FALSE
    /\ m_Timeout \in TimeoutValues
    /\ m_ReadableList = << >>
    /\ m_ReadableMutex = "free"
    /\ m_LocalHandlersThread = 0
    /\ cpc = "idle"
    /\ ppc = "idle"
    /\ ppkt = NoPacket
    /\ wpc = [w \in Workers |-> "none"]
    /\ returnedPacket = [w \in Workers |-> NoPacket]
    /\ readPacket = [w \in Workers |-> FALSE]
    /\ delegateIdx = [w \in Workers |-> 0]
    /\ nextId = 0
    /\ accepted = << >>
    /\ dispatched = << >>
    /\ handled = << >>
    /\ stopSet = {}
    /\ m_PacketQueue = << >>
    /\ m_Endianness = "Unset"
    /\ m_IdList = << >>
    /\ wbuf = NoBuffer
    /\ threw = 0
    /\ m_ClientConnection = [rx |-> << >>, state |-> "open", preambles |-> 0,
                            failed |-> 0]
    /\ m_ServerEndianness = "Unset"
    /\ m_StreamMetaData = << >>
    /\ ret = [op |-> "none"]
    /\ sent = << >>
    /\ received = << >>
    /\ sharedObjects = << >>
    /\ candidate = NoModule
    /\ dynamicBackends = << >>
    /\ openHandles = {}
    /\ backendRegistry = << >>
    /\ diagnostics = 0
    /\ scanned = << >>
    /\ m_PacketAvailableMutex = "free"
    /\ rpc = "idle"
    /\ readResult = NoResult
    /\ readCalls = 0

\* ------------------------------------------------------ the control thread
\* The loop of AddLocalPacketHandler over GetHeadersAccepted(): the handler is
\* appended to the vector of each header in turn, the vector being created
\* when find() does not find the header.
RECURSIVE IndexHandler(_, _, _)
IndexHandler(indexed, h, headers) ==
    IF headers = << >> THEN indexed
    ELSE LET header == Head(headers)
             next == IF header \in DOMAIN indexed
                     THEN [indexed EXCEPT ![header] = Append(@, h)]
                     ELSE [x \in DOMAIN indexed \cup {header} |->
                              IF x = header THEN << h >> ELSE indexed[x]]
         IN  IndexHandler(next, h, Tail(headers))

\* The registry is filled before the first worker is started and is read-only
\* afterwards: the code has no lock for it.
AddLocalPacketHandler(h) ==
    /\ cpc = "idle"
    /\ ~EverStarted
    /\ Len(m_PacketHandlers) < MaxHandlers
    /\ m_PacketHandlers' = Append(m_PacketHandlers, h)
    /\ IF GetHeadersAccepted(h) = << >>
       THEN /\ m_UniversalHandlers' = Append(m_UniversalHandlers, h)
            /\ UNCHANGED m_IndexedHandlers
       ELSE /\ m_IndexedHandlers' =
                  IndexHandler(m_IndexedHandlers, h, GetHeadersAccepted(h))
            /\ UNCHANGED m_UniversalHandlers
    /\ UNCHANGED << flags, elsewhere, outbound, threw, m_ReadableList, m_ReadableMutex,
                    m_LocalHandlersThread, cpc, ppc, ppkt, wpc, wlocals,
                    nextId, history >>

\* The worker slot a new std::thread takes.
NextWorker == Cardinality({ w \in Workers : wpc[w] # "none" }) + 1

\* StartProcessingThread without the m_IsRunning check and without the join.
StartWithoutGuard ==
    /\ cpc = "idle"
    /\ NextWorker \in Workers
    /\ m_IsRunning' = TRUE
    /\ m_KeepRunning' = TRUE
    /\ m_LocalHandlersThread' = NextWorker
    /\ wpc' = [wpc EXCEPT ![NextWorker] = "lock"]
    /\ UNCHANGED << registry, elsewhere, outbound, threw, m_ReadableList, m_ReadableMutex,
                    cpc, ppc, ppkt, wlocals, nextId, history >>

\* StartProcessingThread without m_KeepRunning.store(true).
StartWithoutKeepRunning ==
    /\ cpc = "idle"
    /\ IF m_IsRunning
       THEN UNCHANGED vars
       ELSE /\ NextWorker \in Workers
            /\ m_LocalHandlersThread # 0 =>
                   wpc[m_LocalHandlersThread] = "exited"
            /\ m_IsRunning' = TRUE
            /\ m_LocalHandlersThread' = NextWorker
            /\ wpc' = [w \in Workers |->
                          IF w = NextWorker THEN "lock"
                          ELSE IF w = m_LocalHandlersThread THEN "joined"
                          ELSE wpc[w]]
            /\ UNCHANGED << registry, m_KeepRunning, elsewhere, outbound, threw,
                            m_ReadableList, m_ReadableMutex, cpc, ppc, ppkt,
                            wlocals, nextId, history >>

\* StartProcessingThread. join() returns once the thread referred to has
\* returned from ServiceLocalHandlers.
StartProcessingThread ==
    /\ cpc = "idle"
    /\ IF m_IsRunning
       THEN UNCHANGED vars
       ELSE /\ NextWorker \in Workers
            /\ m_LocalHandlersThread # 0 =>
                   wpc[m_LocalHandlersThread] = "exited"
            /\ m_IsRunning' = TRUE
            /\ m_KeepRunning' = TRUE
            /\ m_LocalHandlersThread' = NextWorker
            /\ wpc' = [w \in Workers |->
                          IF w = NextWorker THEN "lock"
                          ELSE IF w = m_LocalHandlersThread THEN "joined"
                          ELSE wpc[w]]
            /\ UNCHANGED << registry, elsewhere, outbound, threw, m_ReadableList,
                            m_ReadableMutex, cpc, ppc, ppkt, wlocals, nextId,
                            history >>

\* Close, up to the joinable() test: the outbound queue is emptied (with no
\* lock taken) and m_KeepRunning is cleared. Close is entered by one thread
\* at a time: two joins of the same std::thread are not defined.
CloseBegin ==
    /\ cpc = "idle"
    /\ m_PacketQueue' = << >>
    /\ m_KeepRunning' = FALSE
    /\ stopSet' = IF m_KeepRunning
                  THEN stopSet \cup { m_ReadableList[i].id :
                                         i \in 1 .. Len(m_ReadableList) }
                  ELSE stopSet
    /\ cpc' = IF m_LocalHandlersThread # 0 THEN "close_notify" ELSE "idle"
    /\ UNCHANGED << registry, m_IsRunning, elsewhere, m_Endianness, m_IdList,
                    m_ReadableList, m_ReadableMutex, m_LocalHandlersThread,
                    ppkt, wpc, wlocals, nextId, accepted, dispatched,
                    handled >>

\* Close called by the control thread.
CloseStore ==
    /\ CloseBegin
    /\ UNCHANGED << ppc, wbuf, threw >>

\* Close: m_ConditionPacketReadable.notify_one().
CloseNotify ==
    /\ cpc = "close_notify"
    /\ wpc' = NotifyOne(wpc)
    /\ cpc' = "close_join"
    /\ UNCHANGED << registry, flags, elsewhere, outbound, threw, m_ReadableList,
                    m_ReadableMutex, m_LocalHandlersThread, ppc, ppkt,
                    wlocals, nextId, history >>

\* Close returning without waiting for the worker (a detach for the join).
CloseWithoutJoin ==
    /\ cpc = "close_join"
    /\ m_LocalHandlersThread' = 0
    /\ cpc' = "idle"
    /\ ppc' = IF ppc = "fail" THEN "idle" ELSE ppc
    /\ threw' = IF ppc = "fail" THEN threw + 1 ELSE threw
    /\ UNCHANGED << registry, flags, elsewhere, outbound, m_ReadableList,
                    m_ReadableMutex, ppkt, wpc, wlocals, nextId, history >>

\* Close: m_LocalHandlersThread.join(), and the return. When Close was called
\* by Fail, Fail then throws its RuntimeException out of WritePacket.
CloseJoin ==
    /\ cpc = "close_join"
    /\ wpc[m_LocalHandlersThread] = "exited"
    /\ wpc' = [wpc EXCEPT ![m_LocalHandlersThread] = "joined"]
    /\ m_LocalHandlersThread' = 0
    /\ cpc' = "idle"
    /\ ppc' = IF ppc = "fail" THEN "idle" ELSE ppc
    /\ threw' = IF ppc = "fail" THEN threw + 1 ELSE threw
    /\ UNCHANGED << registry, flags, elsewhere, outbound, m_ReadableList,
                    m_ReadableMutex, ppkt, wlocals, nextId, history >>

\* ----------------------------------------------------- the producer thread
\* ForwardPacketToHandlers without the m_PacketHandlers.empty() return.
ForwardWithoutHandlerCheck(header) ==
    /\ ppc = "idle"
    /\ nextId < MaxPackets
    /\ nextId' = nextId + 1
    /\ IF ~m_KeepRunning
       THEN UNCHANGED << ppc, ppkt >>
       ELSE /\ ppkt' = [id |-> nextId + 1, header |-> header]
            /\ ppc' = "lock"
    /\ UNCHANGED << registry, flags, elsewhere, m_ReadableList,
                    m_ReadableMutex, m_LocalHandlersThread, cpc, wpc, wlocals,
                    accepted, dispatched, handled, stopSet >>

\* ForwardPacketToHandlers(packet), called at the end of WritePacket, up to
\* the lock: the two early returns.
ForwardPacketToHandlers(header) ==
    /\ ppc = "idle"
    /\ nextId < MaxPackets
    /\ nextId' = nextId + 1
    /\ IF m_PacketHandlers = << >> \/ ~m_KeepRunning
       THEN UNCHANGED << ppc, ppkt >>
       ELSE /\ ppkt' = [id |-> nextId + 1, header |-> header]
            /\ ppc' = "lock"
    /\ UNCHANGED << registry, flags, elsewhere, m_ReadableList,
                    m_ReadableMutex, m_LocalHandlersThread, cpc, wpc, wlocals,
                    accepted, dispatched, handled, stopSet >>

\* ToUint32: the four bytes at data as a 32 bit word of the given byte order.
ToUint32(data, endianness) ==
    IF endianness = "BeWire"
    THEN ((data[1] * 256 + data[2]) * 256 + data[3]) * 256 + data[4]
    ELSE ((data[4] * 256 + data[3]) * 256 + data[2]) * 256 + data[1]

\* ReceivePacket(buffer, length): the packet of a buffer, its header read
\* from the first word.
ReceivePacket(buffer) == [header |-> ToUint32(buffer.word0, "LeWire")]

GetPackageActivity(packet) ==
    IF packet.header = CounterDirectoryHeader THEN "CounterDirectory"
    ELSE IF packet.header = StreamMetaDataHeader THEN "StreamMetaData"
    ELSE "Unknown"

\* WaitForStreamMeta: the byte order the pipe_magic word selects, or "Fail"
\* where the code calls Fail.
WaitForStreamMeta(buffer) ==
    IF ToUint32(buffer.word0, "BeWire") # 0 THEN "Fail"
    ELSE IF ToUint32(buffer.magic, "BeWire") = PIPE_MAGIC THEN "BeWire"
    ELSE IF ToUint32(buffer.magic, "LeWire") = PIPE_MAGIC THEN "LeWire"
    ELSE "Fail"

\* SendConnectionAck pushing the acknowledgement with the length of a
\* counter selection packet (capture period only) for its zero length.
SendConnectionAckWithBody(queue) ==
    Append(queue, [header |-> ConnectionAckHeader, length |-> 4])

\* SendConnectionAck: Packet(0x10000, 0, nullptr) is pushed under
\* m_PacketAvailableMutex, which the lock_guard takes and releases around
\* the push.
SendConnectionAck(queue) ==
    Append(queue, [header |-> ConnectionAckHeader, length |-> 0])

\* SendCounterSelectionPacket selecting only the counter added last.
SendSelectionOfLast(queue, idList) ==
    Append(queue, [header |-> CounterSelectionHeader, length |-> 4 + 2,
                   ids |-> << idList[Len(idList)] >>])

\* SendCounterSelectionPacket: the capture period and the ids of m_IdList.
SendCounterSelectionPacket(queue, idList) ==
    Append(queue, [header |-> CounterSelectionHeader,
                   length |-> 4 + 2 * Len(idList), ids |-> idList])

\* Fail(errorMessage), called on the producer's thread: Close(), then the
\* throw. With no thread to join Close returns at once.
Fail ==
    /\ CloseBegin
    /\ IF m_LocalHandlersThread # 0
       THEN ppc' = "fail" /\ UNCHANGED threw
       ELSE ppc' = ppc /\ threw' = threw + 1

\* WritePacket(buffer, length): the switch on the package activity, then
\* ForwardPacketToHandlers(packet). A failed handshake leaves through Fail.
WritePacket(buffer) ==
    LET packet == ReceivePacket(buffer)
        packageActivity == GetPackageActivity(packet)
    IN  /\ ppc = "idle"
        /\ nextId + threw < MaxPackets
        /\ wbuf' = buffer
        /\ CASE packageActivity = "StreamMetaData" ->
                  IF WaitForStreamMeta(buffer) = "Fail"
                  THEN Fail
                  ELSE /\ m_PacketAvailableMutex = "free"
                       /\ m_Endianness' = WaitForStreamMeta(buffer)
                       /\ m_PacketQueue' = SendConnectionAck(m_PacketQueue)
                       /\ UNCHANGED << m_IdList, threw >>
                       /\ ForwardPacketToHandlers(packet.header)
             [] packageActivity = "CounterDirectory" ->
                  /\ m_PacketAvailableMutex = "free"
                  /\ m_IdList' = m_IdList \o buffer.counters
                  /\ m_PacketQueue' =
                        SendCounterSelectionPacket(m_PacketQueue, m_IdList')
                  /\ UNCHANGED << m_Endianness, threw >>
                  /\ ForwardPacketToHandlers(packet.header)
             [] OTHER ->
                  /\ UNCHANGED << m_PacketQueue, m_Endianness, m_IdList,
                                  threw >>
                  /\ ForwardPacketToHandlers(packet.header)

\* The lock is taken and m_KeepRunning is checked again under it; the return
\* releases the lock.
ForwardLock ==
    /\ ppc = "lock"
    /\ m_ReadableMutex = "free"
    /\ IF ~m_KeepRunning
       THEN /\ ppc' = "idle"
            /\ ppkt' = NoPacket
            /\ UNCHANGED m_ReadableMutex
       ELSE /\ ppc' = "push"
            /\ m_ReadableMutex' = "producer"
            /\ UNCHANGED ppkt
    /\ UNCHANGED << registry, flags, elsewhere, outbound, threw, m_ReadableList,
                    m_LocalHandlersThread, cpc, wpc, wlocals, nextId,
                    history >>

\* m_ReadableList.push(std::move(packet)); then the lock goes out of scope.
ForwardPush ==
    /\ ppc = "push"
    /\ m_ReadableList' = Append(m_ReadableList, ppkt)
    /\ accepted' = Append(accepted, ppkt.id)
    /\ m_ReadableMutex' = "free"
    /\ ppkt' = NoPacket
    /\ ppc' = "notify"
    /\ UNCHANGED << registry, flags, elsewhere, outbound, threw, m_LocalHandlersThread, cpc,
                    wpc, wlocals, nextId, dispatched, handled, stopSet >>

\* ForwardPacketToHandlers returning without the notify_one().
ForwardWithoutNotify ==
    /\ ppc = "notify"
    /\ ppc' = "idle"
    /\ UNCHANGED << registry, flags, elsewhere, outbound, threw, m_ReadableList,
                    m_ReadableMutex, m_LocalHandlersThread, cpc, ppkt, wpc,
                    wlocals, nextId, history >>

\* m_ConditionPacketReadable.notify_one();
ForwardNotify ==
    /\ ppc = "notify"
    /\ wpc' = NotifyOne(wpc)
    /\ ppc' = "idle"
    /\ UNCHANGED << registry, flags, elsewhere, outbound, threw, m_ReadableList,
                    m_ReadableMutex, m_LocalHandlersThread, cpc, ppkt,
                    wlocals, nextId, history >>

\* ------------------------------------------------------ the worker threads
\* All the variables a worker step leaves alone unless it says otherwise.
WorkerFrame ==
    UNCHANGED << registry, elsewhere, outbound, threw, m_LocalHandlersThread, cpc, ppc, ppkt,
                 nextId, accepted, stopSet >>

\* The locals of one pass of the do loop, before the pass and after it.
ResetLocals(w) ==
    /\ returnedPacket' = [returnedPacket EXCEPT ![w] = NoPacket]
    /\ readPacket' = [readPacket EXCEPT ![w] = FALSE]
    /\ delegateIdx' = [delegateIdx EXCEPT ![w] = 0]

\* wait(lck, pred) and wait_for(lck, t, pred) evaluate the predicate with the
\* lock held; if it is false the lock is released and the thread blocks on
\* the condition variable.
WaitOrBlock(w) ==
    IF m_ReadableList # << >>
    THEN /\ wpc' = [wpc EXCEPT ![w] = "check"]
         /\ m_ReadableMutex' = "worker"
    ELSE /\ wpc' = [wpc EXCEPT ![w] = "blocked"]
         /\ m_ReadableMutex' = "free"

\* Top of the do loop: the lock is taken and the wait is entered.
WorkerLock(w) ==
    /\ wpc[w] = "lock"
    /\ m_ReadableMutex = "free"
    /\ WaitOrBlock(w)
    /\ WorkerFrame
    /\ UNCHANGED << flags, m_ReadableList, wlocals, dispatched, handled >>

\* A condition variable may wake a waiting thread with no notification.
WorkerSpuriousWake(w) ==
    /\ wpc[w] = "blocked"
    /\ wpc' = [wpc EXCEPT ![w] = "woken"]
    /\ WorkerFrame
    /\ UNCHANGED << flags, m_ReadableList, m_ReadableMutex, wlocals,
                    dispatched, handled >>

\* A woken thread takes the lock again and evaluates the predicate again.
WorkerWoken(w) ==
    /\ wpc[w] = "woken"
    /\ m_ReadableMutex = "free"
    /\ WaitOrBlock(w)
    /\ WorkerFrame
    /\ UNCHANGED << flags, m_ReadableList, wlocals, dispatched, handled >>

\* wait_for only (m_Timeout >= 0): the time is up; the lock is taken again
\* and wait_for returns whatever the predicate says, which the code ignores.
WorkerTimeout(w) ==
    /\ wpc[w] \in {"blocked", "woken"}
    /\ ~(m_Timeout < 0)
    /\ m_ReadableMutex = "free"
    /\ m_ReadableMutex' = "worker"
    /\ wpc' = [wpc EXCEPT ![w] = "check"]
    /\ WorkerFrame
    /\ UNCHANGED << flags, m_ReadableList, wlocals, dispatched, handled >>

\* if (m_KeepRunning.load()) ... else ClearReadableList(); with the lock held.
\* In the else branch the lock is released at the end of the block.
WorkerCheck(w) ==
    /\ wpc[w] = "check"
    /\ IF m_KeepRunning
       THEN /\ wpc' = [wpc EXCEPT ![w] = "take"]
            /\ UNCHANGED << m_ReadableList, m_ReadableMutex >>
       ELSE /\ m_ReadableList' = ClearReadableList(m_ReadableList)
            /\ m_ReadableMutex' = "free"
            /\ wpc' = [wpc EXCEPT ![w] = "check2"]
    /\ WorkerFrame
    /\ UNCHANGED << flags, wlocals, dispatched, handled >>

\* WorkerTake with the lock declared outside the block: it is still held when
\* the packet is dispatched.
WorkerTakeHoldingLock(w) ==
    /\ wpc[w] = "take"
    /\ IF m_ReadableList # << >>
       THEN /\ returnedPacket' =
                  [returnedPacket EXCEPT ![w] = Front(m_ReadableList)]
            /\ m_ReadableList' = Pop(m_ReadableList)
            /\ readPacket' = [readPacket EXCEPT ![w] = TRUE]
       ELSE UNCHANGED << returnedPacket, m_ReadableList, readPacket >>
    /\ wpc' = [wpc EXCEPT ![w] = "check2"]
    /\ WorkerFrame
    /\ UNCHANGED << flags, m_ReadableMutex, delegateIdx, dispatched,
                    handled >>

\* The packet at the front is moved out, if there is one; the lock is
\* released at the end of the block.
WorkerTake(w) ==
    /\ wpc[w] = "take"
    /\ IF m_ReadableList # << >>
       THEN /\ returnedPacket' =
                  [returnedPacket EXCEPT ![w] = Front(m_ReadableList)]
            /\ m_ReadableList' = Pop(m_ReadableList)
            /\ readPacket' = [readPacket EXCEPT ![w] = TRUE]
       ELSE UNCHANGED << returnedPacket, m_ReadableList, readPacket >>
    /\ m_ReadableMutex' = "free"
    /\ wpc' = [wpc EXCEPT ![w] = "check2"]
    /\ WorkerFrame
    /\ UNCHANGED << flags, delegateIdx, dispatched, handled >>

\* The dispatch decision on readPacket alone, m_KeepRunning not read again.
WorkerCheck2WithoutFlag(w) ==
    /\ wpc[w] = "check2"
    /\ IF readPacket[w]
       THEN /\ wpc' = [wpc EXCEPT ![w] = "dispatch"]
            /\ delegateIdx' = [delegateIdx EXCEPT ![w] = 1]
            /\ dispatched' = Append(dispatched, returnedPacket[w])
            /\ UNCHANGED << returnedPacket, readPacket >>
       ELSE /\ wpc' = [wpc EXCEPT ![w] = "loop"]
            /\ ResetLocals(w)
            /\ UNCHANGED dispatched
    /\ WorkerFrame
    /\ UNCHANGED << flags, m_ReadableList, m_ReadableMutex, handled >>

\* if (m_KeepRunning.load() && readPacket) DispatchPacketToHandlers(...)
WorkerCheck2(w) ==
    /\ wpc[w] = "check2"
    /\ IF m_KeepRunning /\ readPacket[w]
       THEN /\ wpc' = [wpc EXCEPT ![w] = "dispatch"]
            /\ delegateIdx' = [delegateIdx EXCEPT ![w] = 1]
            /\ dispatched' = Append(dispatched, returnedPacket[w])
            /\ UNCHANGED << returnedPacket, readPacket >>
       ELSE /\ wpc' = [wpc EXCEPT ![w] = "loop"]
            /\ ResetLocals(w)
            /\ UNCHANGED dispatched
    /\ WorkerFrame
    /\ UNCHANGED << flags, m_ReadableList, m_ReadableMutex, handled >>

\* DispatchPacketToHandlers: one delegate->HandlePacket(packet) per step, and
\* the return once the loops are over.
DispatchPacketToHandlers(w) ==
    /\ wpc[w] = "dispatch"
    /\ IF delegateIdx[w] <= Len(Delegates(returnedPacket[w]))
       THEN /\ handled' = Append(handled,
                   << Delegates(returnedPacket[w])[delegateIdx[w]],
                      returnedPacket[w].id >>)
            /\ delegateIdx' = [delegateIdx EXCEPT ![w] = @ + 1]
            /\ UNCHANGED << wpc, returnedPacket, readPacket >>
       ELSE /\ wpc' = [wpc EXCEPT ![w] = "loop"]
            /\ ResetLocals(w)
            /\ UNCHANGED handled
    /\ WorkerFrame
    /\ UNCHANGED << flags, m_ReadableList, m_ReadableMutex, dispatched >>

\* while (m_KeepRunning.load());
WorkerLoop(w) ==
    /\ wpc[w] = "loop"
    /\ wpc' = [wpc EXCEPT ![w] = IF m_KeepRunning THEN "lock" ELSE "stopping"]
    /\ WorkerFrame
    /\ UNCHANGED << flags, m_ReadableList, m_ReadableMutex, wlocals,
                    dispatched, handled >>

\* After the loop: ClearReadableList(), without the lock, then
\* m_IsRunning.store(false), and the thread function returns.
WorkerExit(w) ==
    /\ wpc[w] = "stopping"
    /\ m_ReadableList' = ClearReadableList(m_ReadableList)
    /\ m_IsRunning' = FALSE
    /\ wpc' = [wpc EXCEPT ![w] = "exited"]
    /\ WorkerFrame
    /\ UNCHANGED << m_KeepRunning, m_ReadableMutex, wlocals, dispatched,
                    handled >>

\* ServiceLocalHandlers: the steps of worker w that the scheduler owes it.
ServiceLocalHandlers(w) ==
    \/ WorkerLock(w)
    \/ WorkerWoken(w)
    \/ WorkerTimeout(w)
    \/ WorkerCheck(w)
    \/ WorkerTake(w)
    \/ WorkerCheck2(w)
    \/ DispatchPacketToHandlers(w)
    \/ WorkerLoop(w)
    \/ WorkerExit(w)

\* The steps of a Close in progress.
Close == CloseNotify \/ CloseJoin

\* The steps of a ForwardPacketToHandlers call in progress.
Forwarding == ForwardLock \/ ForwardPush \/ ForwardNotify

Next ==
    \/ \E h \in HandlerObjects : AddLocalPacketHandler(h)
    \/ StartProcessingThread
    \/ CloseStore
    \/ Close
    \/ \E buffer \in WriteBuffers : WritePacket(buffer)
    \/ Forwarding
    \/ \E w \in Workers : ServiceLocalHandlers(w)
    \/ \E w \in Workers : WorkerSpuriousWake(w)

Spec == Init /\ [][Next]_vars

\* Threads that can run do run: a call in progress goes on, and a worker
\* takes the steps it can. Whether and when the control thread and the
\* producer make a call, and spurious wake-ups, are left open.
FairSpec ==
    /\ Spec
    /\ WF_vars(Close)
    /\ WF_vars(Forwarding)
    /\ \A w \in Workers : WF_vars(ServiceLocalHandlers(w))

\* ------------------------------------------------------- the reader thread
\* All the variables a step of ReadPacket leaves alone unless it says
\* otherwise.
ReaderFrame ==
    UNCHANGED << registry, flags, m_Timeout, server, loader, m_ReadableList,
                 m_ReadableMutex, m_LocalHandlersThread, cpc, ppc, ppkt, wpc,
                 wlocals, nextId, history, m_Endianness, m_IdList, wbuf,
                 threw >>

\* ReadPacket(timeout): the lock is taken and wait_for evaluates the
\* predicate !m_PacketQueue.empty(); if it is false the lock is released and
\* the thread waits.
ReadPacketLock ==
    /\ rpc = "idle"
    /\ readCalls < MaxReads
    /\ m_PacketAvailableMutex = "free"
    /\ IF m_PacketQueue # << >>
       THEN rpc' = "front" /\ m_PacketAvailableMutex' = "reader"
       ELSE rpc' = "waiting" /\ UNCHANGED m_PacketAvailableMutex
    /\ UNCHANGED << m_PacketQueue, readResult, readCalls >>
    /\ ReaderFrame

\* The waiting thread is notified, or wakes on its own, takes the lock and
\* finds the predicate true: wait_for returns true with the lock held.
ReadPacketWake ==
    /\ rpc = "waiting"
    /\ m_PacketAvailableMutex = "free"
    /\ m_PacketQueue # << >>
    /\ rpc' = "front"
    /\ m_PacketAvailableMutex' = "reader"
    /\ UNCHANGED << m_PacketQueue, readResult, readCalls >>
    /\ ReaderFrame

\* The time is up with the predicate still false: wait_for returns false and
\* ReadPacket throws its TimeoutException; the lock is released.
ReadPacketTimeout ==
    /\ rpc = "waiting"
    /\ m_PacketAvailableMutex = "free"
    /\ m_PacketQueue = << >>
    /\ rpc' = "idle"
    /\ readResult' = [kind |-> "TimeoutException"]
    /\ readCalls' = readCalls + 1
    /\ UNCHANGED << m_PacketQueue, m_PacketAvailableMutex >>
    /\ ReaderFrame

\* What front() and pop() give on a queue: on an empty std::queue they are
\* not defined, and the call returns what the storage held, a packet that
\* was there before or zeros.
StalePackets ==
    { [header |-> ConnectionAckHeader, length |-> 0],
      [header |-> 0, length |-> 0] }

\* Packet returnedPacket = std::move(m_PacketQueue.front());
\* m_PacketQueue.pop();
FrontAndPop(queue) ==
    IF queue # << >>
    THEN {[packet |-> Front(queue), queue |-> Pop(queue)]}
    ELSE {[packet |-> p, queue |-> << >>] : p \in StalePackets}

\* The packet at the front is moved out and returned; the lock is released
\* on return.
ReadPacketPop ==
    /\ rpc = "front"
    /\ \E r \in FrontAndPop(m_PacketQueue) :
          /\ m_PacketQueue' = r.queue
          /\ readResult' = [kind |-> "packet", packet |-> r.packet]
    /\ readCalls' = readCalls + 1
    /\ rpc' = "idle"
    /\ m_PacketAvailableMutex' = "free"
    /\ ReaderFrame

ReadPacket ==
    \/ ReadPacketLock
    \/ ReadPacketWake
    \/ ReadPacketTimeout
    \/ ReadPacketPop

\* The connection with no local handler: the producer writes packets, the
\* reader takes what they put on the outbound queue, and Close is called.
ReaderNext ==
    \/ \E buffer \in WriteBuffers : WritePacket(buffer)
    \/ CloseStore
    \/ ReadPacket

ReaderSpec == Init /\ [][ReaderNext]_vars

\* ----------------------------------------------------------- BasePipeServer
\* The client side of the socket and the calls made on the server object. A
\* call runs from its first line to its return in one step; the reads and
\* writes it makes on the socket return what the transport allows at that
\* moment, and a call that would block is not taken until it can return.
Min(a, b) == IF a < b THEN a ELSE b

Take(s, k) == SubSeq(s, 1, Min(k, Len(s)))

Drop(s, k) == IF k >= Len(s) THEN << >> ELSE SubSeq(s, k + 1, Len(s))

\* What an array holds before anything is stored in it.
Uninitialized == {0, 127}

RECURSIVE BitOr(_, _)
BitOr(a, b) ==
    IF a = 0 THEN b
    ELSE IF b = 0 THEN a
    ELSE (IF a % 2 = 1 \/ b % 2 = 1 THEN 1 ELSE 0)
            + 2 * BitOr(a \div 2, b \div 2)

\* InsertU32: the four bytes of value in the given byte order.
InsertU32(value, endianness) ==
    LET b3 == (value \div 16777216) % 256
        b2 == (value \div 65536) % 256
        b1 == (value \div 256) % 256
        b0 == value % 256
    IN  IF endianness = "BeWire" THEN << b3, b2, b1, b0 >>
        ELSE << b0, b1, b2, b3 >>

\* The stream metadata the client writes: the identifier word, the length
\* word (4 for the magic word and 12 for the three fields), the magic word
\* and the version, max data length and pid.
Preamble(endianness, identifier, magic) ==
    << 0, 0, 0, identifier >> \o InsertU32(16, endianness) \o magic
        \o InsertU32(1, endianness) \o InsertU32(2, endianness)
        \o InsertU32(3, endianness)

\* Stream metadata whose length word is not 16: the identifier word, the
\* length word, the magic word and what follows it.
ShortPreamble(endianness, length, body) ==
    << 0, 0, 0, 0 >> \o InsertU32(length, endianness)
        \o InsertU32(PIPE_MAGIC, endianness) \o body

\* In order: well formed in either byte order, a wrong magic word, a wrong
\* identifier, and length words of 8 (one field follows), 4 (nothing
\* follows) and 2 (less than the magic word itself).
Preambles ==
    { Preamble("BeWire", 0, InsertU32(PIPE_MAGIC, "BeWire")),
      Preamble("LeWire", 0, InsertU32(PIPE_MAGIC, "LeWire")),
      Preamble("BeWire", 0, << 69, 73, 84, 69 >>),
      Preamble("BeWire", 1, InsertU32(PIPE_MAGIC, "BeWire")),
      ShortPreamble("BeWire", 8, InsertU32(1, "BeWire")),
      ShortPreamble("LeWire", 4, << >>),
      ShortPreamble("BeWire", 2, InsertU32(1, "BeWire")) }

\* The arguments of SendPacket.
PacketFamilies == {0, 1}

PacketIds == {0, 1}

Payloads == { [i \in 1 .. n |-> 16 + i] : n \in 0 .. MaxPayload }

\* The client writes a preamble on the socket.
ClientWrite(bytes) ==
    /\ m_ClientConnection.state = "open"
    /\ m_ClientConnection.preambles < MaxPreambles
    /\ m_StreamMetaData = << >>
    /\ m_ClientConnection' =
          [m_ClientConnection EXCEPT !.rx = @ \o bytes, !.preambles = @ + 1]
    /\ UNCHANGED << m_ServerEndianness, m_StreamMetaData, ret, sent, received,
                    connection,
                    loader >>

\* The client closes its end, the connection breaks, or the descriptor is
\* closed under the server.
ClientClose(state) ==
    /\ m_ClientConnection.state = "open"
    /\ m_ClientConnection' = [m_ClientConnection EXCEPT !.state = state]
    /\ UNCHANGED << m_ServerEndianness, m_StreamMetaData, ret, sent, received,
                    connection,
                    loader >>

\* The sizes of a transfer of at most n bytes that are explored: all of them
\* at once, or the first half.
TransferSizes(n) == {n, (n + 1) \div 2}

\* Sockets::Read(m_ClientConnection, buffer, n): the values it can return,
\* none while it would block. A read returns at least one byte and at most
\* n of the bytes that have arrived, 0 at the end of the stream, -1 on error.
SocketRead(conn, n) ==
    IF conn.state \in {"error", "invalid"} THEN {-1}
    ELSE IF n = 0 THEN {0}
    ELSE IF conn.rx # << >> THEN TransferSizes(Min(n, Len(conn.rx)))
    ELSE IF conn.state = "eof" THEN {0}
    ELSE {}

\* The loop of ReadFromSocket: every Read is given the start of packetData
\* and expectedLength. written is what the reads have stored at the start of
\* packetData so far.
RECURSIVE ReadLoop(_, _, _, _)
ReadLoop(conn, written, totalBytesRead, expectedLength) ==
    IF ~(totalBytesRead < expectedLength)
    THEN {[ok |-> TRUE, conn |-> conn, written |-> written,
           total |-> totalBytesRead]}
    ELSE UNION {
           IF bytesRead < 0 \/ bytesRead = 0
           THEN {[ok |-> FALSE, conn |-> conn, written |-> written,
                  total |-> totalBytesRead]}
           ELSE ReadLoop([conn EXCEPT !.rx = Drop(@, bytesRead)],
                         Take(conn.rx, bytesRead) \o Drop(written, bytesRead),
                         totalBytesRead + bytesRead, expectedLength)
           : bytesRead \in SocketRead(conn, expectedLength) }

\* ReadFromSocket(packetData, expectedLength) on a buffer that holds fill in
\* every byte: the results it can return, each with the socket it leaves and
\* the buffer it has filled. stream is the socket's content at the call.
ReadFromSocket(conn, fill, expectedLength) ==
    { [ok |-> o.ok, conn |-> o.conn, total |-> o.total,
       expected |-> expectedLength, stream |-> conn.rx,
       data |-> IF o.ok
                THEN [i \in 1 .. expectedLength |->
                         IF i <= Len(o.written) THEN o.written[i] ELSE fill]
                ELSE << >>]
      : o \in ReadLoop(conn, << >>, 0, expectedLength) }

\* The test of the pipe_magic word that is PIPE_MAGIC in neither order only
\* when it is not the big-endian one.
DetectBigEndianOnly(pipeMagic) ==
    IF ToUint32(pipeMagic, "BeWire") = PIPE_MAGIC THEN "BeWire"
    ELSE IF ToUint32(pipeMagic, "BeWire") = PIPE_MAGIC THEN "LeWire"
    ELSE "Fail"

\* WaitForStreamMetaData, the test of the pipe_magic word: the byte order it
\* selects, or "Fail" where the code returns false.
DetectEndianness(pipeMagic) ==
    IF ToUint32(pipeMagic, "BeWire") = PIPE_MAGIC THEN "BeWire"
    ELSE IF ToUint32(pipeMagic, "LeWire") = PIPE_MAGIC THEN "LeWire"
    ELSE "Fail"

\* WaitForStreamMetaData: the results it can return. Each has the socket and
\* the members it leaves, the ReadFromSocket calls it made and the pipeMagic
\* array as read (empty when it was not read).
MetaDataResult(ok, conn, endianness, meta, reads, pipeMagic, metaDataLength) ==
    [op |-> "WaitForStreamMetaData", ok |-> ok, conn |-> conn,
     endianness |-> endianness, meta |-> meta, reads |-> reads,
     pipeMagic |-> pipeMagic, metaDataLength |-> metaDataLength]

\* uint32_t metaDataLength = word - 4, modulo 2^32, as its high and low 16
\* bits: below 4 the subtraction wraps.
WordMinus4(word) ==
    IF word >= 4 THEN << (word - 4) \div 65536, (word - 4) % 65536 >>
    ELSE << 65535, 65532 + word >>

\* The size asked of Sockets::Read for a metaDataLength: one that does not
\* fit asks for more than a socket ever holds.
ReadSize(metaDataLength) ==
    IF metaDataLength[1] >= 32768 THEN 2147483647
    ELSE metaDataLength[1] * 65536 + metaDataLength[2]

\* metaDataLength != numeric_cast<uint32_t>(bytesRead)
LengthMismatch(metaDataLength, bytesRead) ==
    \/ bytesRead < 0
    \/ metaDataLength # << bytesRead \div 65536, bytesRead % 65536 >>

WaitForStreamMetaDataBody(h, m) ==
    LET endianness == DetectEndianness(m.data)
        word == ToUint32(SubSeq(h.data, 5, 8), endianness)
        metaDataLength == WordMinus4(word)
        reads == << h, m >>
    IN  IF endianness = "Fail"
        THEN {MetaDataResult(FALSE, m.conn, m_ServerEndianness,
                             m_StreamMetaData, reads, m.data, << >>)}
        ELSE UNION {
               IF LengthMismatch(metaDataLength, bytesRead)
               THEN {MetaDataResult(FALSE,
                        [m.conn EXCEPT !.rx = Drop(@, bytesRead)],
                        endianness, m_StreamMetaData, reads, m.data,
                        metaDataLength)}
               ELSE \* The three fields are read from packetData[0..11]
                    \* whatever metaDataLength is: past its end they hold
                    \* anything.
                    { LET packetData ==
                             [i \in 1 .. 12 |->
                                 IF i <= bytesRead THEN m.conn.rx[i]
                                 ELSE fill]
                      IN  MetaDataResult(TRUE,
                             [m.conn EXCEPT !.rx = Drop(@, bytesRead)],
                             endianness,
                             << ToUint32(SubSeq(packetData, 1, 4),
                                         endianness),
                                ToUint32(SubSeq(packetData, 5, 8),
                                         endianness),
                                ToUint32(SubSeq(packetData, 9, 12),
                                         endianness) >>,
                             reads, m.data, metaDataLength)
                      : fill \in Uninitialized }
               : bytesRead \in SocketRead(m.conn, ReadSize(metaDataLength)) }

WaitForStreamMetaDataResults ==
    UNION {
      IF ~h.ok
      THEN {MetaDataResult(FALSE, h.conn, m_ServerEndianness,
                           m_StreamMetaData, << h >>, << >>, << >>)}
      ELSE IF ToUint32(SubSeq(h.data, 1, 4), "BeWire") # 0
      THEN {MetaDataResult(FALSE, h.conn, m_ServerEndianness,
                           m_StreamMetaData, << h >>, << >>, << >>)}
      ELSE UNION {
             IF ~m.ok
             THEN {MetaDataResult(FALSE, m.conn, m_ServerEndianness,
                                  m_StreamMetaData, << h, m >>, << >>,
                                  << >>)}
             ELSE WaitForStreamMetaDataBody(h, m)
             : m \in UNION { ReadFromSocket(h.conn, fill, 4) :
                                fill \in Uninitialized } }
      : h \in UNION { ReadFromSocket(m_ClientConnection, fill, 8) :
                         fill \in Uninitialized } }

WaitForStreamMetaData ==
    /\ m_StreamMetaData = << >>
    /\ \E r \in WaitForStreamMetaDataResults :
          /\ m_ClientConnection' = r.conn
          /\ m_ServerEndianness' = r.endianness
          /\ m_StreamMetaData' = r.meta
          /\ ret' = [op |-> r.op, ok |-> r.ok, reads |-> r.reads,
                     pipeMagic |-> r.pipeMagic,
                     metaDataLength |-> r.metaDataLength]
    /\ UNCHANGED << sent, received, connection,
                    loader >>

\* The handshake has succeeded: packets are exchanged only after it.
Connected == m_StreamMetaData # << >>

\* ReadHeader and ReceivePacket: the results ReceivePacket can return, each
\* with the socket it leaves and the ReadFromSocket calls it made. The
\* payload buffer of make_unique is zeroed.
ReceivePacketResults(conn) ==
    UNION {
      IF ~h.ok
      THEN {[ok |-> FALSE, conn |-> h.conn, reads |-> << h >>,
             packet |-> [header |-> 0, length |-> 0, data |-> << >>]]}
      ELSE LET header0 == ToUint32(SubSeq(h.data, 1, 4), m_ServerEndianness)
               header1 == ToUint32(SubSeq(h.data, 5, 8), m_ServerEndianness)
           IN  { IF ~d.ok
                 THEN [ok |-> FALSE, conn |-> d.conn, reads |-> << h, d >>,
                       packet |-> [header |-> 0, length |-> 0,
                                   data |-> << >>]]
                 ELSE [ok |-> TRUE, conn |-> d.conn, reads |-> << h, d >>,
                       packet |-> [header |-> header0, length |-> header1,
                                   data |-> d.data]]
                 : d \in ReadFromSocket(h.conn, 0, header1) }
      : h \in UNION { ReadFromSocket(conn, fill, 8) :
                         fill \in Uninitialized } }

BasePipeServerReceivePacket ==
    /\ Connected
    /\ \E r \in ReceivePacketResults(m_ClientConnection) :
          /\ m_ClientConnection' = r.conn
          /\ ret' = [op |-> "ReceivePacket", ok |-> r.ok, reads |-> r.reads]
          /\ received' = IF r.ok THEN Append(received, r.packet)
                         ELSE received
    /\ UNCHANGED << m_ServerEndianness, m_StreamMetaData, sent, connection,
                    loader >>

\* Sockets::Write(m_ClientConnection, packet, size): the values it can
\* return, -1 on error and otherwise the number of bytes the socket took.
SocketWrite(conn, size) ==
    IF conn.state # "open" THEN {-1} ELSE {-1} \cup TransferSizes(size)

\* The test SendPacket makes on the value Write returned.
WriteFailed(written, size) == -1 = written

\* SendPacket(packetFamily, packetId, data, dataLength). What the socket
\* takes arrives at the reader of the same connection.
SendPacket(packetFamily, packetId, data) ==
    LET header0 == BitOr(packetFamily * 67108864, packetId * 65536)
        header1 == Len(data)
        packet == InsertU32(header0, m_ServerEndianness)
                     \o InsertU32(header1, m_ServerEndianness) \o data
    IN  /\ Connected
        /\ Len(sent) + m_ClientConnection.failed < MaxSends
        /\ \E written \in SocketWrite(m_ClientConnection, Len(packet)) :
              LET ok == ~WriteFailed(written, Len(packet))
              IN  /\ m_ClientConnection' =
                        [m_ClientConnection EXCEPT
                            !.rx = @ \o Take(packet, IF written < 0 THEN 0
                                                     ELSE written),
                            !.failed = IF ok THEN @ ELSE @ + 1]
                  /\ ret' = [op |-> "SendPacket", ok |-> ok,
                             size |-> Len(packet), written |-> written]
                  /\ sent' = IF ok
                             THEN Append(sent, [packetFamily |-> packetFamily,
                                                packetId |-> packetId,
                                                data |-> data])
                             ELSE sent
        /\ UNCHANGED << m_ServerEndianness, m_StreamMetaData, received,
                        connection,
                    loader >>

\* Sockets::Poll on the one descriptor: the pairs of its return value and
\* the revents it can report for the state of the socket.
Poll(conn) ==
    {[pollResult |-> -1, revents |-> {}]} \cup
    (IF conn.state = "invalid"
     THEN {[pollResult |-> 1, revents |-> {"POLLNVAL"}]}
     ELSE IF conn.state = "error"
     THEN { [pollResult |-> 1, revents |-> {"POLLERR"} \cup more] :
              more \in (SUBSET {"POLLHUP"})
                          \cup (IF conn.rx # << >> THEN {{"POLLIN"}}
                                ELSE {}) }
     ELSE IF conn.state = "eof"
     THEN { [pollResult |-> 1, revents |-> {"POLLHUP"} \cup more] :
              more \in IF conn.rx # << >> THEN SUBSET {"POLLIN"}
                       ELSE {{}} }
     ELSE IF conn.rx # << >>
     THEN {[pollResult |-> 1, revents |-> {"POLLIN"}],
           [pollResult |-> 0, revents |-> {}]}
     ELSE {[pollResult |-> 0, revents |-> {}],
           [pollResult |-> 1, revents |-> {}]})

\* WaitForPacket(timeoutMs): what it does after Poll has returned p, one of
\* the two exceptions or the call of ReceivePacket.
AfterPoll(p) ==
    IF p.pollResult = -1 THEN "RuntimeException"
    ELSE IF p.pollResult = 0 THEN "TimeoutException"
    ELSE IF p.revents \cap {"POLLNVAL", "POLLERR", "POLLHUP"} # {}
            /\ (\/ p.revents = {"POLLNVAL"}
                \/ p.revents = {"POLLERR"}
                \/ p.revents = {"POLLHUP"})
    THEN "RuntimeException"
    ELSE IF ~("POLLIN" \in p.revents) THEN "TimeoutException"
    ELSE "ReceivePacket"

WaitForPacketReceive(polled, revents) ==
    \E r \in ReceivePacketResults(m_ClientConnection) :
       /\ m_ClientConnection' = r.conn
       /\ ret' = [op |-> "WaitForPacket", result |-> "ReceivePacket",
                  polled |-> polled, revents |-> revents, ok |-> r.ok,
                  reads |-> r.reads]
       /\ received' = IF r.ok THEN Append(received, r.packet) ELSE received

\* Sockets::Ioctl(m_ClientConnection, FIONREAD, &bytes_available): the values
\* bytes_available can hold after it. On a closed descriptor the call stores
\* nothing and the variable holds anything.
BytesAvailable(conn) ==
    IF conn.state = "invalid" THEN {0, 9} ELSE {Len(conn.rx)}

WaitForPacket ==
    /\ Connected
    /\ \E bytes_available \in BytesAvailable(m_ClientConnection) :
          IF bytes_available > 8
          THEN WaitForPacketReceive(FALSE, {})
          ELSE \E p \in Poll(m_ClientConnection) :
                  IF AfterPoll(p) = "ReceivePacket"
                  THEN WaitForPacketReceive(TRUE, p.revents)
                  ELSE /\ ret' = [op |-> "WaitForPacket",
                                  result |-> AfterPoll(p), polled |-> TRUE,
                                  revents |-> p.revents, ok |-> FALSE,
                                  reads |-> << >>]
                       /\ UNCHANGED << m_ClientConnection, received >>
    /\ UNCHANGED << m_ServerEndianness, m_StreamMetaData, sent, connection,
                    loader >>

PipeNext ==
    \/ \E bytes \in Preambles : ClientWrite(bytes)
    \/ \E state \in {"eof", "error", "invalid"} : ClientClose(state)
    \/ WaitForStreamMetaData
    \/ BasePipeServerReceivePacket
    \/ \E packetFamily \in PacketFamilies, packetId \in PacketIds,
          data \in Payloads : SendPacket(packetFamily, packetId, data)
    \/ WaitForPacket

PipeSpec == Init /\ [][PipeNext]_vars

\* ---------------------------------------------------- dynamic backend loader
\* The scan of the backend paths, one step per file and stage: a file is
\* opened, the opened module is validated, and when every file has been
\* through that the validated backends are registered in scan order.
RECURSIVE ScanOrders(_)
ScanOrders(n) ==
    IF n = 0 THEN {<< >>}
    ELSE LET shorter == ScanOrders(n - 1)
         IN  shorter \cup
             { Append(files, m) :
                  files \in { f \in shorter : Len(f) = n - 1 },
                  m \in Modules }

\* A scan order names no file twice.
Distinct(files) ==
    \A i, j \in 1 .. Len(files) : i # j => files[i].file # files[j].file

Scanning == scanned # << >>

\* Discovery: the files of the search paths, in path order.
GetSharedObjects(files) ==
    /\ ~Scanning
    /\ files # << >>
    /\ Distinct(files)
    /\ sharedObjects' = files
    /\ scanned' = files
    /\ diagnostics' = 0
    /\ UNCHANGED << candidate, dynamicBackends, openHandles, backendRegistry,
                    connection, server >>

\* The next file is opened as a loadable module; a file that is not one is
\* skipped with a diagnostic.
OpenHandle ==
    /\ sharedObjects # << >>
    /\ candidate = NoModule
    /\ LET sharedObject == Head(sharedObjects)
       IN  /\ sharedObjects' = Tail(sharedObjects)
           /\ IF sharedObject.kind = "notLibrary"
              THEN /\ diagnostics' = diagnostics + 1
                   /\ UNCHANGED << candidate, openHandles >>
              ELSE /\ candidate' = sharedObject
                   /\ openHandles' = openHandles \cup {sharedObject.file}
                   /\ UNCHANGED diagnostics
    /\ UNCHANGED << dynamicBackends, backendRegistry, scanned, connection,
                    server >>

\* The handle of a file is released.
CloseHandle(handles, file) == handles \ {file}

\* The entry points and the version of the opened module are resolved: a
\* module that fails is closed and skipped with a diagnostic, one that
\* passes becomes a backend to register.
CreateDynamicBackend ==
    /\ candidate # NoModule
    /\ candidate' = NoModule
    /\ IF candidate.kind = "valid"
       THEN /\ dynamicBackends' = Append(dynamicBackends, candidate)
            /\ UNCHANGED << openHandles, diagnostics >>
       ELSE /\ openHandles' = CloseHandle(openHandles, candidate.file)
            /\ diagnostics' = diagnostics + 1
            /\ UNCHANGED dynamicBackends
    /\ UNCHANGED << sharedObjects, backendRegistry, scanned, connection,
                    server >>

IsBackendRegistered(backends, id) ==
    \E i \in 1 .. Len(backends) : backends[i].id = id

\* Registration that replaces the entry of a backend identifier already
\* registered and closes the handle of the backend it replaces.
RegisterLastWins(backends, handles, dynamicBackend) ==
    IF IsBackendRegistered(backends, dynamicBackend.id)
    THEN [backends |->
             [i \in 1 .. Len(backends) |->
                 IF backends[i].id = dynamicBackend.id THEN dynamicBackend
                 ELSE backends[i]],
          handles |->
             handles \ { backends[i].file :
                           i \in { k \in 1 .. Len(backends) :
                                     backends[k].id = dynamicBackend.id } }]
    ELSE [backends |-> Append(backends, dynamicBackend), handles |-> handles]

\* Registration of one validated backend: with its identifier already in the
\* registry it is discarded and its module unloaded, otherwise it is added.
RegisterDynamicBackend(backends, handles, dynamicBackend) ==
    IF IsBackendRegistered(backends, dynamicBackend.id)
    THEN [backends |-> backends,
          handles |-> CloseHandle(handles, dynamicBackend.file)]
    ELSE [backends |-> Append(backends, dynamicBackend), handles |-> handles]

RegisterDynamicBackends ==
    /\ sharedObjects = << >>
    /\ candidate = NoModule
    /\ dynamicBackends # << >>
    /\ LET r == RegisterDynamicBackend(backendRegistry, openHandles,
                                       Head(dynamicBackends))
       IN  /\ backendRegistry' = r.backends
           /\ openHandles' = r.handles
    /\ dynamicBackends' = Tail(dynamicBackends)
    /\ UNCHANGED << sharedObjects, candidate, diagnostics, scanned,
                    connection, server >>

\* The scan is over: every file was opened, validated and registered or
\* discarded.
ScanDone ==
    /\ Scanning
    /\ sharedObjects = << >>
    /\ candidate = NoModule
    /\ dynamicBackends = << >>

\* Teardown: the backends are deregistered and every handle is released.
DeregisterBackends ==
    /\ ScanDone
    /\ backendRegistry' = << >>
    /\ openHandles' = {}
    /\ scanned' = << >>
    /\ UNCHANGED << sharedObjects, candidate, dynamicBackends, diagnostics,
                    connection, server >>

BackendNext ==
    \/ \E files \in ScanOrders(MaxModules) : GetSharedObjects(files)
    \/ OpenHandle
    \/ CreateDynamicBackend
    \/ RegisterDynamicBackends
    \/ DeregisterBackends

BackendSpec == Init /\ [][BackendNext]_vars

\* ---------------------------------------------------------------- claims
\* The state of the dispatch pipeline, read off the connection: not started
\* while no worker was ever spawned, running while m_KeepRunning is set,
\* stopping while a Close is in progress, stopped once it has returned.
PipelineState ==
    IF ~EverStarted THEN "NotStarted"
    ELSE IF m_KeepRunning THEN "Running"
    ELSE IF cpc = "idle" THEN "Stopped"
    ELSE "Stopping"

\* s is an order-preserving subsequence of t.
RECURSIVE IsSubseq(_, _)
IsSubseq(s, t) ==
    IF s = << >> THEN TRUE
    ELSE IF t = << >> THEN FALSE
    ELSE IF Head(s) = Head(t) THEN IsSubseq(Tail(s), Tail(t))
    ELSE IsSubseq(s, Tail(t))

DispatchedIds == [i \in 1 .. Len(dispatched) |-> dispatched[i].id]

\* C1: the packets handed to DispatchPacketToHandlers are, in order, a
\* subsequence of the packets pushed on the inbound queue, and no packet is
\* handed over twice.
C1_FifoDispatch ==
    /\ IsSubseq(DispatchedIds, accepted)
    /\ \A i, j \in 1 .. Len(dispatched) :
          i # j => dispatched[i].id # dispatched[j].id

\* Two packets were queued and both were dispatched.
C1_Witness == Len(accepted) >= 2 /\ Len(dispatched) >= 2

\* C2: once Close is called it returns: the worker leaves its loop and the
\* join completes, whatever m_Timeout is and whatever the queue holds.
C2_CloseTerminates == (cpc # "idle") ~> (cpc = "idle")

\* C3: from the return of Close until the pipeline is started again no
\* packet is handed to DispatchPacketToHandlers and no HandlePacket is called.
C3_NoDispatchAfterClose ==
    [][PipelineState = "Stopped" =>
          (handled' = handled /\ dispatched' = dispatched)]_vars

\* Close has returned after packets were handled, and a packet forwarded
\* around the stop sits in the queue.
C3_Witness ==
    /\ PipelineState = "Stopped"
    /\ handled # << >>
    /\ m_ReadableList # << >>

\* C4: a packet that is in the inbound queue when Close clears m_KeepRunning
\* (stores false over true) is never handed to DispatchPacketToHandlers and
\* never passed to a handler.
C4_StoppedPacketsDiscarded ==
    /\ \A i \in 1 .. Len(dispatched) : dispatched[i].id \notin stopSet
    /\ \A i \in 1 .. Len(handled) : handled[i][2] \notin stopSet

\* Close found packets queued, has returned, and the queue is empty.
C4_Witness ==
    /\ stopSet # {}
    /\ PipelineState = "Stopped"
    /\ m_ReadableList = << >>

\* C5: when Close has returned the inbound queue is empty.
C5_QueueEmptyAfterClose ==
    PipelineState = "Stopped" => m_ReadableList = << >>

\* The HandlePacket calls made for packet id, in order.
CallsFor(id) ==
    LET OfPacket(c) == c[2] = id
        calls == SelectSeq(handled, OfPacket)
    IN  [i \in 1 .. Len(calls) |-> calls[i][1]]

\* What C6 expects for a packet with the given header: the universal
\* handlers in registration order, then the handlers that accept the header,
\* in registration order.
ExpectedCalls(header) ==
    LET IsUniversal(h) == GetHeadersAccepted(h) = << >>
        Accepts(h) == header \in Range(GetHeadersAccepted(h))
    IN  SelectSeq(m_PacketHandlers, IsUniversal)
           \o SelectSeq(m_PacketHandlers, Accepts)

IsPrefix(s, t) == Len(s) <= Len(t) /\ SubSeq(t, 1, Len(s)) = s

\* The dispatch of packet id is still going on.
InDispatch(id) ==
    \E w \in Workers : wpc[w] = "dispatch" /\ returnedPacket[w].id = id

\* C6: the handler invocations for a dispatched packet with header h are
\* exactly the universal handlers in registration order followed by the
\* handlers registered for h in registration order.
C6_DispatchOrder ==
    \A i \in 1 .. Len(dispatched) :
        LET p == dispatched[i]
        IN  IF InDispatch(p.id)
            THEN IsPrefix(CallsFor(p.id), ExpectedCalls(p.header))
            ELSE CallsFor(p.id) = ExpectedCalls(p.header)

\* C7: StartProcessingThread spawns nothing while m_IsRunning is set; at most
\* one worker thread is alive at any time, and it is the one the thread
\* handle refers to; when a worker is spawned every earlier worker has been
\* joined.
C7_StartIdempotent ==
    /\ [](/\ Cardinality(LiveWorkers) <= 1
          /\ \A w \in LiveWorkers : m_LocalHandlersThread = w)
    /\ [][/\ m_IsRunning =>
                \A w \in Workers : wpc[w] = "none" => wpc'[w] = "none"
          /\ \A w \in Workers :
                (wpc[w] = "none" /\ wpc'[w] # "none") =>
                   \A v \in Workers \ {w} : wpc'[v] \in {"none", "joined"}
         ]_vars

\* The pipeline runs on its second worker, the first one joined, and a
\* StartProcessingThread call can be made.
C7_Witness ==
    /\ m_IsRunning
    /\ cpc = "idle"
    /\ \E w \in LiveWorkers : \E v \in Workers : v # w /\ wpc[v] = "joined"

\* C8 as stated: once Close has completed the pipeline stays stopped.
C8_StoppedIsTerminal ==
    [][PipelineState = "Stopped" => PipelineState' = "Stopped"]_vars

\* C8 as amended: the pipeline goes NotStarted -> Running -> (Stopping ->)
\* Stopped, and from Stopped a StartProcessingThread brings it back to
\* Running, on a new worker spawned after the previous one was joined.
C8_Lifecycle ==
    [][/\ << PipelineState, PipelineState' >> \in
             { << "NotStarted", "NotStarted" >>, << "NotStarted", "Running" >>,
               << "Running", "Running" >>, << "Running", "Stopping" >>,
               << "Stopping", "Stopping" >>, << "Stopping", "Stopped" >>,
               << "Stopped", "Stopped" >>, << "Stopped", "Running" >> }
       /\ (PipelineState = "Stopped" /\ PipelineState' = "Running") =>
             /\ LiveWorkers = {}
             /\ Cardinality(LiveWorkers') = 1
             /\ \A w \in Workers : wpc[w] # "none" => wpc'[w] = "joined"
      ]_vars

\* The pipeline was stopped and is running again, and has dispatched a packet
\* on its new worker.
C8_Witness ==
    /\ PipelineState = "Running"
    /\ \E w \in Workers : wpc[w] = "joined"
    /\ \E w \in LiveWorkers : wpc[w] = "dispatch"

\* C9: a ForwardPacketToHandlers call that finds no handler registered, or
\* finds m_KeepRunning false at either check, returns at once: the inbound
\* queue is unchanged, no thread is notified, nothing is accepted or
\* dispatched.
C9_ForwardNoOp ==
    [][((nextId' # nextId \/ (ppc = "lock" /\ ppc' # "lock"))
          /\ (m_PacketHandlers = << >> \/ ~m_KeepRunning)) =>
            /\ ppc' = "idle"
            /\ UNCHANGED << m_ReadableList, m_ReadableMutex, wpc, accepted,
                            dispatched, handled >>
      ]_vars

\* With a handler registered and the pipeline stopped, a packet was forwarded
\* and was not accepted.
C9_Witness ==
    /\ PipelineState = "Stopped"
    /\ m_PacketHandlers # << >>
    /\ ppc = "idle"
    /\ nextId > Len(accepted)

\* C10: when AddLocalPacketHandler returns, a worker thread is running.
C10_AddStartsThread ==
    [][Len(m_PacketHandlers') > Len(m_PacketHandlers) =>
          LiveWorkers' # {}]_vars

\* A step that is a call of WritePacket.
WritePacketCall ==
    ppc = "idle" /\ (nextId' # nextId \/ threw' # threw \/ ppc' = "fail")

\* The pipe_magic word in big-endian and in little-endian byte order.
MagicBeBytes == << 69, 73, 84, 52 >>

MagicLeBytes == << 52, 84, 73, 69 >>

ConnectionAck == [header |-> ConnectionAckHeader, length |-> 0]

\* C11: a WritePacket of a stream metadata packet (header 0) with a valid
\* magic word appends exactly one packet of header 0x10000 and length 0 to
\* the outbound queue; a WritePacket of a packet whose header is neither 0
\* nor 0x20000 leaves the outbound queue as it is.
C11_AckForStreamMetaData ==
    [][WritePacketCall =>
          LET header == ReceivePacket(wbuf').header
          IN  /\ (header = 0 /\ wbuf'.magic \in {MagicBeBytes, MagicLeBytes})
                    => m_PacketQueue' = Append(m_PacketQueue, ConnectionAck)
              /\ header \notin {0, CounterDirectoryHeader}
                    => m_PacketQueue' = m_PacketQueue
      ]_vars

\* An acknowledgement was queued for a handshake, and a packet of another
\* header written after it has left it the only packet queued.
C11_Witness ==
    /\ m_PacketQueue = << ConnectionAck >>
    /\ wbuf # NoBuffer
    /\ ReceivePacket(wbuf).header \notin {0, CounterDirectoryHeader}

\* C12: a handshake that fails throws out of WritePacket, and when it does the
\* pipeline is not running, no worker is left, the outbound queue is empty
\* and the packet was not forwarded.
C12_FailedHandshakeSurfaces ==
    /\ (ppc = "fail") ~> (ppc = "idle")
    /\ [][threw' # threw =>
             /\ ~m_KeepRunning'
             /\ LiveWorkers' = {}
             /\ m_PacketQueue' = << >>
             /\ UNCHANGED << nextId, accepted, m_ReadableList >>
         ]_vars

\* C14: once a handshake has set the byte order it never changes.
C14_EndiannessFixed ==
    [][m_Endianness # "Unset" => m_Endianness' = m_Endianness]_vars

\* C20: while a worker is in DispatchPacketToHandlers it does not hold
\* m_ReadableMutex, and a producer waiting for the lock finds it free.
C20_DispatchOutsideLock ==
    \A w \in Workers :
        wpc[w] = "dispatch" =>
            /\ m_ReadableMutex # "worker"
            /\ ppc = "lock" => m_ReadableMutex = "free"

\* A handler is about to be called for one packet while the producer holds
\* the lock to push the next.
C20_Witness ==
    \E w \in Workers :
        /\ wpc[w] = "dispatch"
        /\ delegateIdx[w] <= Len(Delegates(returnedPacket[w]))
        /\ ppc = "push"

\* The pipe_magic words tried: every word of the four bytes of PIPE_MAGIC.
MagicWords == [1 .. 4 -> {52, 69, 73, 84}]

\* The byte order the wire format assigns to a pipe_magic word.
ExpectedEndianness(pipeMagic) ==
    IF pipeMagic = MagicBeBytes THEN "BeWire"
    ELSE IF pipeMagic = MagicLeBytes THEN "LeWire"
    ELSE "Fail"

\* C13: when the handshake has read the 4-byte magic word, a word that is
\* PIPE_MAGIC in big-endian order selects BeWire, one that is PIPE_MAGIC in
\* little-endian order selects LeWire, and with any other word the handshake
\* fails; the in-memory connection decides every magic word the same way.
C13_EndiannessDetection ==
    ret.op = "WaitForStreamMetaData" /\ ret.pipeMagic # << >> =>
       /\ ExpectedEndianness(ret.pipeMagic) = "BeWire"
             => m_ServerEndianness = "BeWire"
       /\ ExpectedEndianness(ret.pipeMagic) = "LeWire"
             => m_ServerEndianness = "LeWire"
       /\ ExpectedEndianness(ret.pipeMagic) = "Fail" => ~ret.ok
       /\ \A pipeMagic \in MagicWords :
             /\ DetectEndianness(pipeMagic) = ExpectedEndianness(pipeMagic)
             /\ WaitForStreamMeta([word0 |-> << 0, 0, 0, 0 >>,
                                   magic |-> pipeMagic,
                                   counters |-> << >>])
                   = ExpectedEndianness(pipeMagic)

C13_Witness ==
    /\ ret.op = "WaitForStreamMetaData"
    /\ ret.ok
    /\ ret.pipeMagic = MagicLeBytes
    /\ m_ServerEndianness = "LeWire"

\* The ReadFromSocket calls of the last call on the server.
LastReads ==
    IF ret.op \in {"WaitForStreamMetaData", "ReceivePacket", "WaitForPacket"}
    THEN ret.reads ELSE << >>

\* C15: a ReadFromSocket(buffer, N) call that succeeds has taken exactly the
\* next N bytes of the stream, however the transport split them, and the
\* buffer holds them in stream order; a call fails only when the stream has
\* ended or the read reported an error.
C15_ReadFromSocketExact ==
    \A i \in 1 .. Len(LastReads) :
       LET r == LastReads[i]
       IN  /\ r.ok => /\ r.total = r.expected
                      /\ r.data = Take(r.stream, r.expected)
                      /\ r.conn.rx = Drop(r.stream, r.expected)
           /\ ~r.ok => r.conn.state # "open"

\* The header word of a packet of the given family and id.
HeaderWord(packetFamily, packetId) ==
    packetFamily * 67108864 + packetId * 65536

\* C16: the packets ReceivePacket has returned are, in order, the packets
\* SendPacket has sent on the connection: header family << 26 | id << 16,
\* length the payload length, and the same payload bytes.
C16_RoundTrip ==
    /\ Len(received) <= Len(sent)
    /\ \A i \in 1 .. Len(received) :
          i <= Len(sent) =>
             received[i] = [header |-> HeaderWord(sent[i].packetFamily,
                                                  sent[i].packetId),
                            length |-> Len(sent[i].data),
                            data |-> sent[i].data]

\* C17: when the readiness wait of WaitForPacket reports a hang-up, an error
\* or an invalid descriptor, alone or with other event bits, the call fails
\* with a RuntimeException: it neither receives nor reports a timeout.
C17_PollErrorsThrow ==
    (/\ ret.op = "WaitForPacket"
     /\ ret.polled
     /\ ret.revents \cap {"POLLNVAL", "POLLERR", "POLLHUP"} # {})
       => ret.result = "RuntimeException"

\* C18: SendPacket reports failure when the write fails and when the write
\* takes fewer bytes than the whole encoded packet.
C18_SendPacketShortWrite ==
    ret.op = "SendPacket" /\ ret.written # ret.size => ~ret.ok

\* The valid modules of the scan that declare the identifier, in scan order.
ValidWith(id) ==
    SelectSeq(scanned, LAMBDA m : m.kind = "valid" /\ m.id = id)

\* C19: the registry never holds two entries with the same backend
\* identifier; and when a scan is over, of the valid modules that declare
\* one identifier exactly the first in scan order is registered, with its
\* handle open, and the handle of every other one is released.
C19_FirstBackendWins ==
    /\ \A i, j \in 1 .. Len(backendRegistry) :
          backendRegistry[i].id = backendRegistry[j].id => i = j
    /\ ScanDone =>
          \A id \in {"A", "B"} :
             LET valid == ValidWith(id)
                 registered == SelectSeq(backendRegistry,
                                         LAMBDA b : b.id = id)
             IN  /\ valid = << >> => registered = << >>
                 /\ valid # << >> =>
                       /\ registered = << valid[1] >>
                       /\ valid[1].file \in openHandles
                       /\ \A k \in 2 .. Len(valid) :
                             valid[k].file \notin openHandles

\* A scan that met the two valid modules of one identifier is over.
C19_Witness ==
    /\ ScanDone
    /\ Len(ValidWith("A")) = 2
    /\ Len(backendRegistry) >= 1
    /\ openHandles # {}

\* The pipeline is Running from its start on: Close has not been called.
StaysRunning == EverStarted => m_KeepRunning

\* C21: in a behaviour where Close is never called, every packet pushed on
\* m_ReadableList is eventually handed to DispatchPacketToHandlers, the
\* worker and the calls in progress being scheduled fairly.
C21_EventuallyDispatched ==
    []StaysRunning =>
       \A id \in 1 .. MaxPackets :
          (id \in Range(accepted)) ~> (id \in Range(DispatchedIds))

\* Two packets were pushed while the worker was blocked in its wait, and both
\* have been dispatched.
C21_Witness ==
    /\ StaysRunning
    /\ Len(accepted) = 2
    /\ Range(accepted) = Range(DispatchedIds)
    /\ m_Timeout < 0

\* A step that changes the inbound queue is taken by the thread that holds
\* m_ReadableMutex.
InboundGuarded ==
    m_ReadableList' # m_ReadableList =>
       \/ m_ReadableMutex = "producer" /\ ppc = "push" /\ ppc' # ppc
       \/ /\ m_ReadableMutex = "worker"
          /\ \E w \in Workers :
                wpc[w] \in {"check", "take"} /\ wpc'[w] # wpc[w]

\* A step that changes the outbound queue is the pop of the reader, which
\* holds m_PacketAvailableMutex, or a push of the producer, which takes the
\* free mutex for the push.
OutboundGuarded ==
    m_PacketQueue' # m_PacketQueue =>
       \/ m_PacketAvailableMutex = "reader" /\ rpc = "front" /\ rpc' # rpc
       \/ /\ m_PacketAvailableMutex = "free"
          /\ nextId' # nextId
          /\ Len(m_PacketQueue') = Len(m_PacketQueue) + 1

\* C22: every step that changes the inbound queue is taken with
\* m_ReadableMutex held by the thread that takes it, and every step that
\* changes the outbound queue with m_PacketAvailableMutex held, Close and the
\* worker's last ClearReadableList included.
C22_QueuesGuarded == [][InboundGuarded /\ OutboundGuarded]_vars

\* C23: a ReadPacket call that returns a packet returns the head of the
\* outbound queue and removes it and nothing else; a call that throws the
\* TimeoutException found the queue empty and leaves it unchanged.
C23_ReadPacketFifo ==
    [][/\ rpc = "front" /\ rpc' = "idle" =>
             /\ m_PacketQueue # << >>
             /\ readResult'.packet = Head(m_PacketQueue)
             /\ m_PacketQueue' = Tail(m_PacketQueue)
       /\ rpc = "waiting" /\ rpc' = "idle" =>
             /\ readResult'.kind = "TimeoutException"
             /\ m_PacketQueue = << >>
             /\ m_PacketQueue' = m_PacketQueue
      ]_vars

\* C24: a handshake that returns true, and so has decoded the version, the
\* max data length and the pid at offsets 0, 4 and 8 of the buffer it read,
\* has read a buffer of at least 12 bytes.
C24_MetaDataLongEnough ==
    ret.op = "WaitForStreamMetaData" /\ ret.ok =>
       \/ ret.metaDataLength[1] > 0
       \/ ret.metaDataLength[2] >= 12

\* A WritePacket call has returned for a counter directory buffer.
WroteCounterDirectory ==
    /\ nextId' # nextId
    /\ ReceivePacket(wbuf').header = CounterDirectoryHeader

\* C25: m_IdList only grows. A WritePacket call of a counter directory
\* appends the counters of that directory to it and queues one packet of
\* header 0x40000 whose payload is the capture period and all the ids of the
\* list, 4 + 2 * n bytes; no other step changes the list.
C25_IdListGrows ==
    [][/\ IsPrefix(m_IdList, m_IdList')
       /\ IF WroteCounterDirectory
          THEN /\ m_IdList' = m_IdList \o wbuf'.counters
               /\ m_PacketQueue' =
                     Append(m_PacketQueue,
                            [header |-> CounterSelectionHeader,
                             length |-> 4 + 2 * Len(m_IdList'),
                             ids |-> m_IdList'])
          ELSE m_IdList' = m_IdList
      ]_vars

\* Two counter directories were written and the packet queued for the second
\* selects the counters of both.
C25_Witness ==
    /\ m_IdList = << 1, 2, 3 >>
    /\ m_PacketQueue # << >>
    /\ m_PacketQueue[Len(m_PacketQueue)] =
          [header |-> CounterSelectionHeader, length |-> 10,
           ids |-> << 1, 2, 3 >>]

\* C26: no handler is called twice for the same dispatched packet.
C26_HandledAtMostOnce ==
    \A i, j \in 1 .. Len(handled) : handled[i] = handled[j] => i = j

====
